---- MODULE Spec2Model ----
(***************************************************************************)
(* KanbanBot: the Issue Summary pipeline (IssueSummaryBot/                 *)
(* issue_summary_bot.py) and the Kanban Summary bot (KanbanSummaryBot/     *)
(* kanban_summary_bot.py).                                                 *)
(*                                                                         *)
(* Seven specifications share this module.                                 *)
(*   ScoreSpec   get_priority_score applied to one issue whose age,        *)
(*               comment count and labels change between applications.    *)
(*   LabelScoreSpec  get_priority_score on the labelled issues of          *)
(*               test_bot.py.                                              *)
(*   Spec        main(): consecutive runs of the pipeline against one      *)
(*               repository.                                               *)
(*   FormatSpec  format_issue_summary applied to a list of issue records.  *)
(*   KanbanSpec  get_project_items: the pages of a project's items and     *)
(*               their columns.                                            *)
(*   KanbanFormatSpec  format_kanban_summary applied to a column mapping.  *)
(*   KanbanMainSpec    main() of the Kanban Summary bot: consecutive runs  *)
(*               up to the new discussion.                                 *)
(*                                                                         *)
(* Numbers.  Python floats are modelled as exact integers counted in       *)
(* half points (HalfUnits per point): age_days / 2 is a multiple of 0.5,   *)
(* comments * 3 is whole, and the analyzer's answers are drawn from        *)
(* multiples of 0.5.  Timestamps are whole hours.                          *)
(***************************************************************************)
EXTENDS Integers, Sequences, FiniteSets, TLC

VARIABLES
    \* ---- ScoreSpec: one issue under get_priority_score
    now,                \* datetime.now(timezone.utc), in hours
    issue,              \* the issue handed to get_priority_score
    llm,                \* the llm argument: NoLlm, or a stub with a fixed answer
    result,             \* what get_priority_score last returned (NoResult before)
    \* ---- Spec: main()
    repo,               \* the repository: sequence of issues / pull requests
    env,                \* GITHUB_REPOSITORY, GITHUB_TOKEN, OPENAI_API_KEY present?
    pc,                 \* position of main()
    issues,             \* main's `issues` (result of fetch_open_issues)
    idx,                \* position of the for loop over `issues`
    prioritized_issues, \* main's `prioritized_issues`
    summary_content,    \* main's `summary_content`
    exit_code,          \* the process' exit status (NoExit while running)
    net,                \* network calls made by the current run, in order
    runs,               \* number of runs started
    hist,               \* history: summary issues at first and created by runs,
                        \* and whether one was closed from outside
    \* ---- KanbanSpec: get_project_items (KanbanSummaryBot/kanban_summary_bot.py)
    project,            \* the project's items as the API lists them
    page_size,          \* items the API returns per page
    cursor,             \* get_project_items' `cursor`
    has_next_page,      \* get_project_items' `has_next_page`
    all_items,          \* get_project_items' `all_items`
    item_idx,           \* position of the for loop over `all_items`
    columns,            \* get_project_items' `columns` (NoColumns before)
    kpc,                \* position of get_project_items
    queries,            \* the cursors of the page requests made, in order
    \* ---- KanbanMainSpec: main() of the Kanban Summary bot
    categories,         \* the repository's discussion categories, as listed
    discussions,        \* the repository's discussions, oldest first
    main_project        \* main's `project` (NoProject before it is found)

scoreVars == <<now, issue, llm, result>>
mainVars  == <<repo, env, pc, issues, idx, prioritized_issues, summary_content,
               exit_code, net, runs, hist>>
kanbanVars == <<project, page_size, cursor, has_next_page, all_items, item_idx,
                columns, kpc, queries, categories, discussions, main_project>>
vars      == <<now, issue, llm, result, repo, env, pc, issues, idx,
               prioritized_issues, summary_content, exit_code, net, runs,
               hist, project, page_size, cursor, has_next_page, all_items,
               item_idx, columns, kpc, queries, categories, discussions,
               main_project>>

-----------------------------------------------------------------------------
(* Bounds of the model *)

MaxAgeDays  == 200      \* days the clock of ScoreSpec advances
MaxComments == 100      \* comments added in ScoreSpec
TickDays    == 10       \* days between two scorings in ScoreSpec
MaxIssues   == 2        \* issues and pull requests in the repository at first
MaxRuns     == 2        \* runs of main() against the repository

(* Program constants *)

HalfUnits     == 2      \* model units per point; age_days / 2
HoursPerDay   == 24     \* timedelta.days
MaxComponent  == 50     \* cap of every component, in points
PointsPerComment == 3   \* issue.comments * 3
TopIssues     == 5      \* prioritized_issues[:5]

NoCursor      == 0      \* cursor = None: the listing from its start

(* get_project_items not called: the values of its variables. *)
NoColumns == [name \in {} |-> <<>>]
NoProject == [title |-> "none"]
IdleDiscussions ==
    /\ categories = <<>>
    /\ discussions = <<>>
    /\ main_project = NoProject
IdleKanban ==
    /\ IdleDiscussions
    /\ project = <<>>
    /\ page_size = 1
    /\ cursor = NoCursor
    /\ has_next_page = TRUE
    /\ all_items = <<>>
    /\ item_idx = 0
    /\ columns = NoColumns
    /\ kpc = "idle"
    /\ queries = <<>>

Min(a, b) == IF a < b THEN a ELSE b
Max(a, b) == IF a > b THEN a ELSE b

-----------------------------------------------------------------------------
(* calculate_issue_age: (now - created_at).days.  timedelta normalises to   *)
(* 0 <= seconds < 86400, so .days is the floor of the difference: one hour  *)
(* in the future is -1 day.  \div is floor division.                        *)
calculate_issue_age(created_at, t) == (t - created_at) \div HoursPerDay

(* The result of chain.run(...): an exception, or the text returned.  The   *)
(* text is kept as result.strip().split(): its whitespace separated tokens. *)
(* A token is a word float() rejects, a finite number (in half points),     *)
(* "nan", or a signed "inf".                                                *)
Raise       == [kind |-> "raise"]
Text(toks)  == [kind |-> "text", tokens |-> toks]
Word        == [t |-> "word"]
Num(v)      == [t |-> "num", v |-> v]
NaN         == [t |-> "nan"]
Inf         == [t |-> "inf"]

(* The llm argument: NoLlm (None), or a client whose chain.run does `run`. *)
NoLlm      == [kind |-> "none"]
Llm(run)   == [kind |-> "llm", run |-> run]

(* What chain.run may do, for the analyzer's prompt.                        *)
(*   raise; ""; "High"; "Score: 20"; "-5"; "12.5"; "75 points"; "nan"; "inf" *)
Runs ==
    { Raise, Text(<<>>), Text(<<Word>>), Text(<<Word, Num(40)>>),
      Text(<<Num(-10)>>), Text(<<Num(25)>>), Text(<<Num(150), Word>>),
      Text(<<NaN>>), Text(<<Inf>>) }

(* max(0.0, min(score, 50.0)) for a token float() accepts; half points.     *)
(*   "nan": min(nan, 50.0) = nan and max(0.0, nan) = 0.0                    *)
(*   "inf": min(inf, 50.0) = 50.0                                           *)
ClampUpperOnly(score_str) ==
    CASE score_str.t = "num" -> Min(score_str.v, MaxComponent * HalfUnits)
      [] score_str.t = "nan" -> 0
      [] score_str.t = "inf" -> MaxComponent * HalfUnits

Clamp(score_str) ==
    CASE score_str.t = "num" -> Max(0, Min(score_str.v, MaxComponent * HalfUnits))
      [] score_str.t = "nan" -> 0
      [] score_str.t = "inf" -> MaxComponent * HalfUnits

(* analyze_contextual_priority(llm, issue): the try block and its handler.  *)
(*   raise            -> except branch                        -> 0.0        *)
(*   "" / whitespace  -> split()[0] raises IndexError         -> 0.0        *)
(*   "High"           -> float() raises ValueError            -> 0.0        *)
(* failed: the except branch ran.                                           *)
analyze_failed(l) ==
    \/ l.run.kind = "raise"
    \/ l.run.tokens = <<>>
    \/ Head(l.run.tokens).t = "word"

AnalyzeFailureAsMidpoint(l) ==
    IF analyze_failed(l) THEN (MaxComponent * HalfUnits) \div 2 ELSE Clamp(Head(l.run.tokens))
analyze_contextual_priority(l) ==
    IF analyze_failed(l) THEN 0 ELSE Clamp(Head(l.run.tokens))

(* The label scheme the scorer used to have (test_bot.py still expects it). *)
LabelPoints(labels) ==
    (IF "bug" \in labels THEN 20 ELSE 0) + (IF "urgent" \in labels THEN 25 ELSE 0)

AgeScoreThird(age_days) == Min((age_days * HalfUnits) \div 3, MaxComponent * HalfUnits)
AgeScore(age_days) == Min(age_days, MaxComponent * HalfUnits)  \* min(age_days / 2, 50)

EngagementScoreUncapped(comments) == comments * PointsPerComment * HalfUnits
EngagementScoreTwoPerComment(comments) ==
    Min(comments * 2 * HalfUnits, MaxComponent * HalfUnits)
EngagementScore(comments) ==
    Min(comments * PointsPerComment * HalfUnits, MaxComponent * HalfUnits)

(* get_priority_score(issue, llm) evaluated at time t. *)
ScoreWithLabels(i, t, l) ==
    LET age_score        == AgeScore(calculate_issue_age(i.created_at, t))
        engagement_score == EngagementScore(i.comments)
        contextual_score == IF l # NoLlm THEN analyze_contextual_priority(l) ELSE 0
    IN [total |-> age_score + engagement_score + contextual_score
                    + LabelPoints(i.labels) * HalfUnits,
        breakdown |-> [age |-> age_score, engagement |-> engagement_score,
                       context |-> contextual_score]]

(* The same scheme with the label names compared in lower case. *)
LowerLabel(name) ==
    CASE name = "BUG" -> "bug"
      [] name = "Urgent" -> "urgent"
      [] OTHER -> name
LabelPointsAnyCase(labels) == LabelPoints({ LowerLabel(name) : name \in labels })

ScoreWithLabelsAnyCase(i, t, l) ==
    LET age_score        == AgeScore(calculate_issue_age(i.created_at, t))
        engagement_score == EngagementScore(i.comments)
        contextual_score == IF l # NoLlm THEN analyze_contextual_priority(l) ELSE 0
    IN [total |-> age_score + engagement_score + contextual_score
                    + LabelPointsAnyCase(i.labels) * HalfUnits,
        breakdown |-> [age |-> age_score, engagement |-> engagement_score,
                       context |-> contextual_score]]

ScoreMidpointWithoutLlm(i, t, l) ==
    LET age_score        == AgeScore(calculate_issue_age(i.created_at, t))
        engagement_score == EngagementScore(i.comments)
        contextual_score == IF l # NoLlm THEN analyze_contextual_priority(l)
                            ELSE (MaxComponent * HalfUnits) \div 2
    IN [total |-> age_score + engagement_score + contextual_score,
        breakdown |-> [age |-> age_score, engagement |-> engagement_score,
                       context |-> contextual_score]]

get_priority_score(i, t, l) ==
    LET age_days         == calculate_issue_age(i.created_at, t)
        age_score        == AgeScore(age_days)
        engagement_score == EngagementScore(i.comments)
        contextual_score == IF l # NoLlm THEN analyze_contextual_priority(l) ELSE 0
        total_score      == age_score + engagement_score + contextual_score
    IN [total |-> total_score,
        breakdown |-> [age |-> age_score, engagement |-> engagement_score,
                       context |-> contextual_score]]

-----------------------------------------------------------------------------------------------------------------------------------------------------
(* Sequences *)

Reverse(s) == [k \in 1..Len(s) |-> s[Len(s) + 1 - k]]
Prefix(s, n) == SubSeq(s, 1, Min(n, Len(s)))

RECURSIVE InsertAsc(_, _)
(* x placed behind every element whose key is <= its own: stable. *)
InsertAsc(sorted, x) ==
    IF sorted = <<>> THEN <<x>>
    ELSE IF Head(sorted).priority_score <= x.priority_score
         THEN <<Head(sorted)>> \o InsertAsc(Tail(sorted), x)
         ELSE <<x>> \o sorted

RECURSIVE StableSortAsc(_)
StableSortAsc(s) ==
    IF s = <<>> THEN <<>>
    ELSE InsertAsc(StableSortAsc(SubSeq(s, 1, Len(s) - 1)), s[Len(s)])

(* list.sort(key=lambda x: x['priority_score'], reverse=True).  CPython     *)
(* reverses the list, sorts it stably in ascending order and reverses it    *)
(* again, which keeps equal keys in their original order.                   *)
SortThenReverse(s) == Reverse(StableSortAsc(s))
SortByScoreDescending(s) == Reverse(StableSortAsc(Reverse(s)))

-----------------------------------------------------------------------------
(* Titles are sequences of fragments, so that == and `in` can be told       *)
(* apart: `"Issue Summary Report" in title` holds when the fragment occurs. *)
ReportPhrase  == "Issue Summary Report"
summary_title == <<"chart emoji", ReportPhrase>>

Titles == { summary_title, <<"Stale", ReportPhrase, "entries">>, <<"Login fails">> }

Contains(title, phrase) == \E k \in 1..Len(title) : title[k] = phrase

(* What chain.run may do in a run of main().  For the analyzer: raise,      *)
(* "", "High", "12.5".  For every other prompt: raise, or                   *)
(* text.                                                                    *)
ContextRuns == { Raise, Text(<<>>), Text(<<Word>>), Text(<<Num(25)>>) }
TextRuns    == { Raise, Text(<<Word>>) }

(* summarize_issue: result.strip(), or the fallback naming the title. *)
SummaryNoFallback(run, i) == <<>>
summarize_issue(run, i) ==
    IF run.kind = "raise" THEN <<"Unable to generate summary.">> \o i.title
    ELSE run.tokens

(* generate_reading_materials: result.strip(), or "". *)
generate_reading_materials(run, i) ==
    IF run.kind = "raise" THEN <<>> ELSE run.tokens

(* Which failures of the three per-issue calls leave their function as an   *)
(* exception (and so reach the handler of main()): none, each chain.run     *)
(* and the parsing of its answer sit in a try with `except Exception`.      *)
Propagates(runs3) == FALSE

(* The line main() builds for one issue. *)
issue_data(i, t, runs3) ==
    LET priority_result == get_priority_score(i, t, Llm(runs3.context)) IN
    [number |-> i.number,
     title |-> i.title,
     url |-> i.number,
     created_at |-> i.created_at,
     labels |-> i.labels,
     comments |-> i.comments,
     priority_score |-> priority_result.total,
     priority_breakdown |-> priority_result.breakdown,
     summary |-> summarize_issue(runs3.summary, i),
     reading_materials |-> generate_reading_materials(runs3.reading, i)]

(* generate_priority_recommendation: no model call for an empty list. *)
RecommendationInput(prioritized) ==
    [k \in 1..Min(TopIssues, Len(prioritized)) |->
        [number |-> prioritized[k].number, title |-> prioritized[k].title,
         score |-> prioritized[k].priority_score, labels |-> prioritized[k].labels]]

generate_priority_recommendation(run, prioritized) ==
    IF prioritized = <<>> THEN <<"No open issues to prioritize.">>
    ELSE IF run.kind = "raise"
         THEN <<"Unable to generate recommendation at this time.">>
         ELSE run.tokens

(* The empty dict, and dict.get(key, default) on a record.                  *)
EmptyDict == [key \in {} |-> 0]
Get(d, key, default) == IF key \in DOMAIN d THEN d[key] ELSE default

(* format_issue_summary: the report as its header fields and its sections.  *)
(* Scores are kept in half points, which the one-decimal format prints      *)
(* exactly, so a printed term is the pair of its value and its word.        *)
PriorityDisplayContextAlways(e) ==
    LET breakdown == Get(e, "priority_breakdown", EmptyDict)
    IN  [score |-> e.priority_score,
         terms |->
            IF DOMAIN breakdown # {}
            THEN <<[value |-> Get(breakdown, "age", 0), word |-> "Age"],
                   [value |-> Get(breakdown, "engagement", 0), word |-> "Engagement"],
                   [value |-> Get(breakdown, "context", 0), word |-> "Context analysis"]>>
            ELSE <<>>]

PriorityDisplay(e) ==
    LET breakdown == Get(e, "priority_breakdown", EmptyDict)
        age_val == Get(breakdown, "age", 0)
        engagement_val == Get(breakdown, "engagement", 0)
        context_val == Get(breakdown, "context", 0)
    IN  [score |-> e.priority_score,
         terms |->
            IF DOMAIN breakdown # {}
            THEN <<[value |-> age_val, word |-> "Age"],
                   [value |-> engagement_val, word |-> "Engagement"]>>
                 \o (IF context_val > 0
                     THEN <<[value |-> context_val, word |-> "Context analysis"]>>
                     ELSE <<>>)
            ELSE <<>>]

ReadingHeading == "Recommended Reading"

ReadingSectionAlways(e) ==
    <<ReadingHeading>> \o Get(e, "reading_materials", <<>>)

ReadingSection(e) ==
    LET reading_materials == Get(e, "reading_materials", <<>>)
    IN  IF reading_materials # <<>>
        THEN <<ReadingHeading>> \o reading_materials
        ELSE <<>>

Section(k, e, t) ==
    [idx |-> k,
     title |-> e.title,
     url |-> e.url,
     number |-> e.number,
     priority_score |-> e.priority_score,
     priority_display |-> PriorityDisplay(e),
     labels_str |-> IF e.labels # <<>> THEN e.labels ELSE <<"none">>,
     age_days |-> calculate_issue_age(e.created_at, t),
     comments |-> e.comments,
     summary |-> e.summary,
     reading_section |-> ReadingSection(e)]

FormatShortWhenEmpty(prioritized, recommendation, repo_name, t) ==
    IF prioritized = <<>>
    THEN [form |-> "short", repository |-> repo_name, generated |-> t,
          status |-> "No open issues found"]
    ELSE [form |-> "full", repository |-> repo_name, generated |-> t,
          total |-> Len(prioritized), recommendation |-> recommendation,
          sections |-> [k \in 1..Len(prioritized) |-> Section(k, prioritized[k], t)]]

FormatTotalOfScored(prioritized, recommendation, repo_name, t) ==
    LET scored(e) == "priority_breakdown" \in DOMAIN e
    IN  [form |-> "full", repository |-> repo_name, generated |-> t,
         total |-> Len(SelectSeq(prioritized, scored)),
         recommendation |-> recommendation,
         sections |-> [k \in 1..Len(prioritized) |-> Section(k, prioritized[k], t)]]

FormatSorted(prioritized, recommendation, repo_name, t) ==
    LET sorted == SortByScoreDescending(prioritized)
    IN  [form |-> "full", repository |-> repo_name, generated |-> t,
         total |-> Len(prioritized), recommendation |-> recommendation,
         sections |-> [k \in 1..Len(prioritized) |-> Section(k, sorted[k], t)]]

format_issue_summary(prioritized, recommendation, repo_name, t) ==
    [form |-> "full",
     repository |-> repo_name,
     generated |-> t,
     total |-> Len(prioritized),
     recommendation |-> recommendation,
     sections |-> [k \in 1..Len(prioritized) |-> Section(k, prioritized[k], t)]]

(* The report main() writes itself when fetch_open_issues returns nothing. *)
NoIssuesReport(repo_name, t) ==
    [form |-> "short", repository |-> repo_name, generated |-> t,
     status |-> "No open issues found"]

NoContent == [form |-> "none"]

(* Of an issue body the repository model keeps the form of the report and   *)
(* its number of sections; the program never reads a body back.             *)
BodyOf(content) ==
    [form |-> content.form,
     sections |-> IF content.form = "full" THEN Len(content.sections) ELSE 0]

(* fetch_open_issues: the open items that are not pull requests. *)
NotPullRequest(i) == i.state = "open" /\ ~i.pull_request
fetch_open_issues(r) == SelectSeq(r, NotPullRequest)

(* main(): "Skip the summary issue itself". *)
SkipNothing(i) == FALSE
SkipInMain(i) == Contains(i.title, ReportPhrase)

(* create_or_update_summary_issue: the first open item with the title. *)
HasSummaryTitle(i) == i.state = "open" /\ i.title = summary_title
ExistingNever(r) == <<>>
ExistingIssue(r) == Prefix(SelectSeq(r, HasSummaryTitle), 1)

-----
(* ScoreSpec: get_priority_score on one issue.  The issue is created within *)
(* a day of the first scoring (possibly an hour ahead of the local clock);  *)
(* afterwards time passes, comments arrive and labels are edited, and the   *)
(* issue is scored again after each change.                                 *)

NoResult == [total |-> "none"]

LabelSets == { {}, {"bug"}, {"bug", "urgent", "critical"} }

CreatedAt == { 1, 0, 0 - (HoursPerDay - 1), 0 - HoursPerDay, 0 - (TickDays - 1) * HoursPerDay }

IdleMain ==
    /\ repo = <<>>
    /\ env = [repository |-> FALSE, token |-> FALSE, key |-> FALSE]
    /\ pc = "idle"
    /\ issues = <<>>
    /\ idx = 0
    /\ prioritized_issues = <<>>
    /\ summary_content = NoContent
    /\ exit_code = "running"
    /\ net = <<>>
    /\ runs = 0
    /\ hist = [created |-> 0, closed |-> FALSE, initial |-> 0]

ScoreInit ==
    /\ now = 0
    /\ issue \in { [number |-> 1, title |-> "Login fails", body |-> "Users cannot log in.",
                    labels |-> {}, comments |-> 0, created_at |-> c] : c \in CreatedAt }
    /\ llm \in {NoLlm} \cup { Llm(r) : r \in Runs }
    /\ result = NoResult
    /\ IdleMain
    /\ IdleKanban

(* The model calls of one get_priority_score(issue, llm): the analyzer is   *)
(* called only "if llm is not None".                                        *)
AnalyzerCalls(i, l) ==
    IF l # NoLlm
    THEN << [api |-> "openai", op |-> "context", about |-> <<i.number>>,
             reported |-> analyze_failed(l)] >>
    ELSE <<>>

idleInScore == <<repo, env, pc, issues, idx, prioritized_issues, summary_content,
                 exit_code, runs, hist>>

ScoreIssue ==
    /\ result = NoResult
    /\ result' = get_priority_score(issue, now, llm)
    /\ UNCHANGED <<now, issue, llm>>
    /\ net' = AnalyzerCalls(issue', llm')
    /\ UNCHANGED idleInScore
    /\ UNCHANGED kanbanVars

TimePasses ==
    /\ result # NoResult
    /\ calculate_issue_age(issue.created_at, now) + TickDays <= MaxAgeDays
    /\ now' = now + TickDays * HoursPerDay
    /\ result' = get_priority_score(issue, now', llm)
    /\ UNCHANGED <<issue, llm>>
    /\ net' = AnalyzerCalls(issue', llm')
    /\ UNCHANGED idleInScore
    /\ UNCHANGED kanbanVars

AddComment ==
    /\ result # NoResult
    /\ issue.comments < MaxComments
    /\ issue' = [issue EXCEPT !.comments = @ + 1]
    /\ result' = get_priority_score(issue', now, llm)
    /\ UNCHANGED <<now, llm>>
    /\ net' = AnalyzerCalls(issue', llm')
    /\ UNCHANGED idleInScore
    /\ UNCHANGED kanbanVars

Relabel ==
    /\ result # NoResult
    /\ \E ls \in LabelSets \ {issue.labels} :
          issue' = [issue EXCEPT !.labels = ls]
    /\ result' = get_priority_score(issue', now, llm)
    /\ UNCHANGED <<now, llm>>
    /\ net' = AnalyzerCalls(issue', llm')
    /\ UNCHANGED idleInScore
    /\ UNCHANGED kanbanVars

ScoreNext == ScoreIssue \/ TimePasses \/ AddComment \/ Relabel

ScoreSpec == ScoreInit /\ [][ScoreNext]_vars

(* LabelScoreSpec: the issues of TestLabelCaseInsensitivity and of          *)
(* test_priority_score_without_llm_backward_compatible: created now, one    *)
(* label in upper, mixed or lower case, scored with and without analyzer    *)
(* as comments arrive and time passes.                                      *)
TestLabelSets == { {"BUG"}, {"Urgent"}, {"bug"} }

LabelScoreInit ==
    /\ now = 0
    /\ issue \in { [number |-> 1, title |-> "Login fails", body |-> "Users cannot log in.",
                    labels |-> ls, comments |-> 0, created_at |-> 0] :
                   ls \in TestLabelSets }
    /\ llm \in {NoLlm, Llm(Text(<<Num(25)>>))}
    /\ result = NoResult
    /\ IdleMain
    /\ IdleKanban

LabelScoreNext == ScoreIssue \/ TimePasses \/ AddComment

LabelScoreSpec == LabelScoreInit /\ [][LabelScoreNext]_vars

-----------------------------------------------------------------------------------------------------------------------------------------------------
(* Spec: runs of main() against one repository.  The repository lists its   *)
(* items newest first; an item is an issue or a pull request.  Between two  *)
(* runs somebody may close the summary issue.                               *)

NewProfile == [created_at |-> 0, comments |-> 0, labels |-> <<>>, body |-> <<>>]

Profiles ==
    { NewProfile,
      [created_at |-> 0 - 19 * HoursPerDay, comments |-> 1,
       labels |-> <<"bug", "urgent">>, body |-> <<"text">>] }

Item(n, title, pr, p) ==
    [number |-> n, title |-> title, pull_request |-> pr, state |-> "open",
     created_at |-> p.created_at, comments |-> p.comments, labels |-> p.labels,
     body |-> p.body]

(* A pull request's age and comments are never read: fetch_open_issues      *)
(* drops it, and create_or_update_summary_issue reads only its title.       *)
Kinds ==
    { [pull_request |-> FALSE, profile |-> p] : p \in Profiles }
    \cup { [pull_request |-> TRUE, profile |-> NewProfile] }

Repos ==
    UNION { { [k \in 1..n |-> Item(n + 1 - k, ts[k], ks[k].pull_request, ks[k].profile)] :
                ts \in [1..n -> Titles], ks \in [1..n -> Kinds] } : n \in 0..MaxIssues }

Envs == [repository : BOOLEAN, token : BOOLEAN, key : BOOLEAN]

repo_name == <<"owner", "repo">>

(* A network call of the run: the service, the operation, the issue numbers *)
(* it is about, and whether the caller's except branch ran on it (the error *)
(* is then printed to stderr).                                              *)
Call(api, op, about, reported) ==
    [api |-> api, op |-> op, about |-> about, reported |-> reported]

Init ==
    /\ now = 0
    /\ issue = [number |-> 0]
    /\ llm = NoLlm
    /\ result = NoResult
    /\ repo \in Repos
    /\ env = [repository |-> FALSE, token |-> FALSE, key |-> FALSE]
    /\ pc = "idle"
    /\ issues = <<>>
    /\ idx = 0
    /\ prioritized_issues = <<>>
    /\ summary_content = NoContent
    /\ exit_code = "running"
    /\ net = <<>>
    /\ runs = 0
    /\ hist = [created |-> 0, closed |-> FALSE,
               initial |-> Len(SelectSeq(repo, HasSummaryTitle))]
    /\ IdleKanban

(* sys.exit(1), from the handler at the end of main() or the check of       *)
(* repo_name. *)
Exit(code) ==
    /\ pc' = "exited"
    /\ exit_code' = code

(* main(), up to the try block: the repository name. *)
Start ==
    /\ pc \in {"idle", "exited"}
    /\ runs < MaxRuns
    /\ runs' = runs + 1
    /\ \E e \in Envs :
        /\ env' = e
        /\ IF ~e.repository
           THEN Exit("1")
           ELSE pc' = "fetch" /\ exit_code' = "running"
    /\ issues' = <<>>
    /\ idx' = 0
    /\ prioritized_issues' = <<>>
    /\ summary_content' = NoContent
    /\ net' = <<>>
    /\ UNCHANGED <<repo, hist>>
    /\ UNCHANGED scoreVars
    /\ UNCHANGED kanbanVars

(* fetch_open_issues, then either the "no open issues" report or            *)
(* get_openai_client. *)
FetchNoToken ==
    /\ pc = "fetch"
    /\ ~env.token
    /\ Exit("1")
    /\ UNCHANGED <<repo, env, issues, idx, prioritized_issues, summary_content,
                   net, runs, hist>>
    /\ UNCHANGED scoreVars
    /\ UNCHANGED kanbanVars

FetchFails ==
    /\ pc = "fetch"
    /\ env.token
    /\ net' = Append(net, Call("github", "get_issues", <<>>, TRUE))
    /\ Exit("1")
    /\ UNCHANGED <<repo, env, issues, idx, prioritized_issues, summary_content,
                   runs, hist>>
    /\ UNCHANGED scoreVars
    /\ UNCHANGED kanbanVars

Fetch ==
    /\ pc = "fetch"
    /\ env.token
    /\ net' = Append(net, Call("github", "get_issues", <<>>, FALSE))
    /\ issues' = fetch_open_issues(repo)
    /\ IF issues' = <<>>
       THEN /\ summary_content' = NoIssuesReport(repo_name, now)
            /\ pc' = "publish"
            /\ idx' = idx
            /\ exit_code' = exit_code
       ELSE IF ~env.key
       THEN /\ Exit("1")
            /\ UNCHANGED <<summary_content, idx>>
       ELSE /\ pc' = "loop"
            /\ idx' = 1
            /\ UNCHANGED <<summary_content, exit_code>>
    /\ UNCHANGED <<repo, env, prioritized_issues, runs, hist>>
    /\ UNCHANGED scoreVars
    /\ UNCHANGED kanbanVars

(* One iteration of `for issue in issues`. *)
SkipIssue ==
    /\ pc = "loop"
    /\ idx <= Len(issues)
    /\ SkipInMain(issues[idx])
    /\ idx' = idx + 1
    /\ UNCHANGED <<repo, env, pc, issues, prioritized_issues, summary_content,
                   exit_code, net, runs, hist>>
    /\ UNCHANGED scoreVars
    /\ UNCHANGED kanbanVars

ProcessIssue ==
    /\ pc = "loop"
    /\ idx <= Len(issues)
    /\ ~SkipInMain(issues[idx])
    /\ \E c \in ContextRuns, sm \in TextRuns, rd \in TextRuns :
        LET i == issues[idx]
            runs3 == [context |-> c, summary |-> sm, reading |-> rd]
        IN /\ net' = net \o
                << Call("openai", "context", <<i.number>>, analyze_failed(Llm(c))),
                   Call("openai", "summary", <<i.number>>, sm.kind = "raise"),
                   Call("openai", "reading", <<i.number>>, rd.kind = "raise") >>
           /\ IF Propagates(runs3)
              THEN /\ Exit("1")
                   /\ UNCHANGED <<prioritized_issues, idx>>
              ELSE /\ prioritized_issues' =
                        Append(prioritized_issues, issue_data(i, now, runs3))
                   /\ idx' = idx + 1
                   /\ UNCHANGED <<pc, exit_code>>
    /\ UNCHANGED <<repo, env, issues, summary_content, runs, hist>>
    /\ UNCHANGED scoreVars
    /\ UNCHANGED kanbanVars

(* After the loop: sort, recommendation, format_issue_summary. *)
Recommended(sorted) == [k \in 1..Len(RecommendationInput(sorted)) |->
                            RecommendationInput(sorted)[k].number]

Summarize ==
    /\ pc = "loop"
    /\ idx > Len(issues)
    /\ LET sorted == SortByScoreDescending(prioritized_issues) IN
        /\ prioritized_issues' = sorted
        /\ \E r \in TextRuns :
            /\ summary_content' =
                 format_issue_summary(sorted,
                     generate_priority_recommendation(r, sorted), repo_name, now)
            /\ net' = IF sorted = <<>>
                      THEN net
                      ELSE Append(net, Call("openai", "recommendation",
                                            Recommended(sorted), r.kind = "raise"))
    /\ pc' = "publish"
    /\ UNCHANGED <<repo, env, issues, idx, exit_code, runs, hist>>
    /\ UNCHANGED scoreVars
    /\ UNCHANGED kanbanVars

(* create_or_update_summary_issue, and the return of main(). *)
NewSummaryIssue(r, content, t) ==
    [number |-> Len(r) + 1, title |-> summary_title, pull_request |-> FALSE,
     state |-> "open", created_at |-> t, comments |-> 0,
     labels |-> <<"bot", "summary">>, body |-> BodyOf(content)]

PublishFails ==
    /\ pc = "publish"
    /\ net' = Append(net, Call("github", "get_issues", <<>>, TRUE))
    /\ Exit("1")
    /\ UNCHANGED <<repo, env, issues, idx, prioritized_issues, summary_content,
                   runs, hist>>
    /\ UNCHANGED scoreVars
    /\ UNCHANGED kanbanVars

Publish ==
    /\ pc = "publish"
    /\ LET existing_issue == ExistingIssue(repo) IN
       IF existing_issue # <<>>
       THEN /\ repo' = [k \in 1..Len(repo) |->
                          IF repo[k].number = existing_issue[1].number
                          THEN [repo[k] EXCEPT !.body = BodyOf(summary_content)]
                          ELSE repo[k]]
            /\ net' = net \o << Call("github", "get_issues", <<>>, FALSE),
                                Call("github", "edit", <<existing_issue[1].number>>, FALSE) >>
            /\ hist' = hist
       ELSE /\ repo' = <<NewSummaryIssue(repo, summary_content, now)>> \o repo
            /\ net' = net \o << Call("github", "get_issues", <<>>, FALSE),
                                Call("github", "create_issue", <<Len(repo) + 1>>, FALSE) >>
            /\ hist' = [hist EXCEPT !.created = @ + 1]
    /\ Exit("0")
    /\ UNCHANGED <<env, issues, idx, prioritized_issues, summary_content,
                   runs>>
    /\ UNCHANGED scoreVars
    /\ UNCHANGED kanbanVars

(* Outside the program: somebody closes an open issue titled as the         *)
(* summary issue. *)
CloseExternally ==
    /\ ~hist.closed
    /\ pc \in {"idle", "exited"}
    /\ \E k \in 1..Len(repo) :
        /\ HasSummaryTitle(repo[k])
        /\ repo' = [repo EXCEPT ![k].state = "closed"]
    /\ hist' = [hist EXCEPT !.closed = TRUE]
    /\ UNCHANGED <<env, pc, issues, idx, prioritized_issues, summary_content,
                   exit_code, net, runs>>
    /\ UNCHANGED scoreVars
    /\ UNCHANGED kanbanVars

Next ==
    \/ Start
    \/ FetchNoToken
    \/ FetchFails
    \/ Fetch
    \/ SkipIssue
    \/ ProcessIssue
    \/ Summarize
    \/ PublishFails
    \/ Publish
    \/ CloseExternally

Spec == Init /\ [][Next]_vars

-----------------------------------------------------------------------------
(* FormatSpec: format_issue_summary applied to a list of issue records in   *)
(* any order.  A record may lack the keys the function reads with           *)
(* dict.get (priority_breakdown, reading_materials), and its breakdown may  *)
(* be empty or partial.                                                     *)

Breakdowns ==
    { [age |-> 10, engagement |-> 6, context |-> 0],
      [age |-> 10, engagement |-> 6, context |-> 1],
      [context |-> MaxComponent],
      EmptyDict }

ReadingTexts == { <<>>, <<"link">> }

FormatScores == { 17, 2 * MaxComponent }

(* The keys every record has; the number is the record's place in the list. *)
BaseEntry(n, score) ==
    [number |-> n, title |-> <<"issue">>, url |-> n, created_at |-> 0,
     labels |-> <<>>, comments |-> 2, priority_score |-> score, summary |-> <<Word>>]

Extend(f, key, value) ==
    [x \in DOMAIN f \cup {key} |-> IF x = key THEN value ELSE f[x]]

(* Records of one score with every combination of the optional keys, and    *)
(* records of other scores as main() builds them.                           *)
EntryShapes ==
    LET base == BaseEntry(0, 16)
        withBreakdown ==
            {base} \cup { Extend(base, "priority_breakdown", b) : b \in Breakdowns }
        full(score) ==
            Extend(Extend(BaseEntry(0, score), "priority_breakdown",
                          [age |-> 10, engagement |-> 6, context |-> score - 16]),
                   "reading_materials", <<>>)
    IN  withBreakdown
        \cup { Extend(e, "reading_materials", r) : e \in withBreakdown, r \in ReadingTexts }
        \cup { full(score) : score \in FormatScores }

FormatInputs ==
    UNION { { [k \in 1..n |-> [es[k] EXCEPT !.number = k, !.url = k]] :
                es \in [1..n -> EntryShapes] } : n \in 0..MaxIssues }

Recommendations == { <<"No open issues to prioritize.">>, <<"Start with the first issue.">> }

FormatInit ==
    /\ now = 0
    /\ issue = [number |-> 0]
    /\ llm = NoLlm
    /\ result = NoResult
    /\ repo = <<>>
    /\ env = [repository |-> FALSE, token |-> FALSE, key |-> FALSE]
    /\ pc = "idle"
    /\ issues = <<>>
    /\ idx = 0
    /\ prioritized_issues \in FormatInputs
    /\ summary_content = NoContent
    /\ exit_code = "running"
    /\ net = <<>>
    /\ runs = 0
    /\ hist = [created |-> 0, closed |-> FALSE, initial |-> 0]
    /\ IdleKanban

Format ==
    /\ pc = "idle"
    /\ \E recommendation \in Recommendations :
          summary_content' =
              format_issue_summary(prioritized_issues, recommendation, repo_name, now)
    /\ pc' = "formatted"
    /\ UNCHANGED <<repo, env, issues, idx, prioritized_issues, exit_code, net, runs, hist>>
    /\ UNCHANGED scoreVars
    /\ UNCHANGED kanbanVars

FormatNext == Format

FormatSpec == FormatInit /\ [][FormatNext]_vars

-----------------------------------------------------------------------------
(* KanbanSpec: get_project_items(project_id) of the Kanban Summary bot.     *)
(* The API lists the project's items page by page; the function collects    *)
(* the pages and then puts every item into the column of its status.        *)

MaxItems    == 2        \* items of the project
MaxPageSize == 2        \* items per page (the query asks for 100)

ColumnNames == {"Backlog", "Ready", "In progress", "In review", "Done"}

(* columns = {'Backlog': [], 'Ready': [], 'In progress': [], ...} *)
EmptyColumns == [name \in ColumnNames |-> <<>>]

(* A node of fieldValues.  The query selects name and field.name of single  *)
(* select values only: a value of any other type comes back as {}.          *)
SingleSelect(field_name, option) == [field |-> [name |-> field_name], name |-> option]
Unnamed(field_name) == [field |-> [name |-> field_name]]
OtherValue == EmptyDict

FieldValueLists ==
    { <<>>,
      <<OtherValue>>,
      <<SingleSelect("Priority", "Done")>>,
      <<SingleSelect("Status", "Ready")>>,
      <<SingleSelect("Status", "Archived")>>,
      <<SingleSelect("Status", "done")>>,
      <<SingleSelect("STATE", "In review")>>,
      <<Unnamed("Status")>>,
      <<OtherValue, SingleSelect("status", "Done")>>,
      <<SingleSelect("Status", "In progress"), SingleSelect("State", "Done")>>,
      <<SingleSelect("Priority", "Ready"), SingleSelect("State", "Archived"),
        SingleSelect("Status", "Backlog")>> }

(* content of an item: an issue; a dict without number; {} (a pull request *)
(* or a draft, which the Issue fragment does not match); or null.           *)
IssueContent(n) ==
    [number |-> n, title |-> <<"item">>, url |-> n, state |-> "OPEN",
     labels |-> [nodes |-> <<[name |-> "bug"]>>], createdAt |-> 0, updatedAt |-> 0]
Numberless == [title |-> <<"item">>]

(* The shapes of an item; its place in the listing becomes its number. *)
ItemShapes ==
    { [content |-> "issue", fieldValues |-> [nodes |-> fv]] : fv \in FieldValueLists }
    \cup { [content |-> "numberless", fieldValues |-> [nodes |-> <<SingleSelect("Status", "Ready")>>]],
           [content |-> "empty", fieldValues |-> [nodes |-> <<SingleSelect("Status", "Ready")>>]],
           [content |-> "null", fieldValues |-> [nodes |-> <<>>]] }

RawItem(k, shape) ==
    CASE shape.content = "issue" ->
            [id |-> k, content |-> IssueContent(k), fieldValues |-> shape.fieldValues]
      [] shape.content = "numberless" ->
            [id |-> k, content |-> Numberless, fieldValues |-> shape.fieldValues]
      [] shape.content = "empty" ->
            [id |-> k, content |-> EmptyDict, fieldValues |-> shape.fieldValues]
      [] shape.content = "null" ->
            [id |-> k, fieldValues |-> shape.fieldValues]

Projects ==
    UNION { { [k \in 1..n |-> RawItem(k, shapes[k])] : shapes \in [1..n -> ItemShapes] } :
            n \in 0..MaxItems }

(* items(first: ..., after: $cursor): the page after the cursor.  A cursor  *)
(* is the place of the last item listed so far.                             *)
PageAfter(c) ==
    LET last == Min(c + page_size, Len(project))
        nodes == SubSeq(project, c + 1, last)
    IN  [nodes |-> nodes,
         pageInfo |-> [hasNextPage |-> last < Len(project),
                       endCursor |-> IF nodes = <<>> THEN NoCursor ELSE last]]

(* str.lower() on the field names of the model. *)
Lower(name) ==
    CASE name \in {"Status", "STATUS", "status"} -> "status"
      [] name \in {"State", "STATE", "state"} -> "state"
      [] name = "Priority" -> "priority"
      [] OTHER -> name

(* The inner loop over fieldValues.nodes: the name of the first value whose *)
(* field is called status or state, 'Backlog' when there is none.           *)
RECURSIVE StatusLastMatch(_, _)
StatusLastMatch(nodes, status) ==
    IF nodes = <<>> THEN status
    ELSE LET field_value == Head(nodes) IN
         IF /\ DOMAIN field_value # {}
            /\ "field" \in DOMAIN field_value
            /\ Lower(Get(field_value.field, "name", "")) \in {"status", "state"}
         THEN StatusLastMatch(Tail(nodes), Get(field_value, "name", "Backlog"))
         ELSE StatusLastMatch(Tail(nodes), status)

RECURSIVE StatusDefaultReady(_, _)
StatusDefaultReady(nodes, status) ==
    IF nodes = <<>> THEN "Ready"
    ELSE LET field_value == Head(nodes) IN
         IF /\ DOMAIN field_value # {}
            /\ "field" \in DOMAIN field_value
            /\ Lower(Get(field_value.field, "name", "")) \in {"status", "state"}
         THEN Get(field_value, "name", "Ready")
         ELSE StatusDefaultReady(Tail(nodes), status)

RECURSIVE ResolveStatus(_, _)
ResolveStatus(nodes, status) ==
    IF nodes = <<>> THEN status
    ELSE LET field_value == Head(nodes) IN
         IF /\ DOMAIN field_value # {}
            /\ "field" \in DOMAIN field_value
            /\ Lower(Get(field_value.field, "name", "")) \in {"status", "state"}
         THEN Get(field_value, "name", "Backlog")
         ELSE ResolveStatus(Tail(nodes), status)

(* issue_data of get_project_items. *)
column_issue_data(content) ==
    [number |-> content.number,
     title |-> content.title,
     url |-> content.url,
     state |-> content.state,
     labels |-> [k \in 1..Len(content.labels.nodes) |-> content.labels.nodes[k].name],
     created_at |-> content.createdAt,
     updated_at |-> content.updatedAt]

(* One turn of "for item in all_items". *)
PlaceUnknownInBacklog(cols, item) ==
    LET content == Get(item, "content", EmptyDict)
        status == ResolveStatus(item.fieldValues.nodes, "Backlog")
    IN  IF DOMAIN content = {} \/ "number" \notin DOMAIN content THEN cols
        ELSE IF status \in DOMAIN cols
             THEN [cols EXCEPT ![status] = Append(@, column_issue_data(content))]
             ELSE [cols EXCEPT !["Backlog"] = Append(@, column_issue_data(content))]

PlaceNumberless(cols, item) ==
    LET content == Get(item, "content", EmptyDict)
        status == ResolveStatus(item.fieldValues.nodes, "Backlog")
        entry == [number |-> Get(content, "number", item.id), title |-> content.title,
                  url |-> item.id, state |-> "OPEN", labels |-> <<>>,
                  created_at |-> 0, updated_at |-> 0]
    IN  IF DOMAIN content = {} THEN cols
        ELSE IF status \in DOMAIN cols
             THEN [cols EXCEPT ![status] = Append(@, entry)]
             ELSE cols

Place(cols, item) ==
    LET content == Get(item, "content", EmptyDict)
        status == ResolveStatus(item.fieldValues.nodes, "Backlog")
    IN  IF DOMAIN content = {} THEN cols
        ELSE IF "number" \notin DOMAIN content THEN cols
        ELSE IF status \in DOMAIN cols
             THEN [cols EXCEPT ![status] = Append(@, column_issue_data(content))]
             ELSE cols

(* format_kanban_summary: total_issues. *)
RECURSIVE SumOfLengths(_, _)
SumOfLengths(cols, names) ==
    IF names = {} THEN 0
    ELSE LET name == CHOOSE x \in names : TRUE
         IN  Len(cols[name]) + SumOfLengths(cols, names \ {name})
total_issues(cols) == SumOfLengths(cols, DOMAIN cols)

KanbanInit ==
    /\ now = 0
    /\ issue = [number |-> 0]
    /\ llm = NoLlm
    /\ result = NoResult
    /\ IdleMain
    /\ project \in Projects
    /\ page_size \in 1..MaxPageSize
    /\ cursor = NoCursor
    /\ has_next_page = TRUE
    /\ all_items = <<>>
    /\ item_idx = 0
    /\ columns = NoColumns
    /\ kpc = "paging"
    /\ queries = <<>>
    /\ IdleDiscussions

idleInKanban == <<now, issue, llm, result, repo, env, pc, issues, idx,
                  prioritized_issues, summary_content, exit_code, net, runs, hist,
                  categories, discussions, main_project>>

(* all_items.extend(items_data['nodes']) *)
KeepLatestPage(items, nodes) == nodes
Accumulate(items, nodes) == items \o nodes

(* One turn of "while has_next_page": the page is served. *)
RequestPage ==
    /\ kpc = "paging"
    /\ has_next_page
    /\ LET data == PageAfter(cursor) IN
          /\ all_items' = Accumulate(all_items, data.nodes)
          /\ has_next_page' = data.pageInfo.hasNextPage
          /\ cursor' = data.pageInfo.endCursor
    /\ queries' = Append(queries, cursor)
    /\ UNCHANGED <<project, page_size, item_idx, columns, kpc>>
    /\ UNCHANGED idleInKanban

(* execute_graphql_query raises (HTTP status, GraphQL errors): the          *)
(* exception leaves get_project_items.                                      *)
RequestPageRaises ==
    /\ kpc = "paging"
    /\ has_next_page
    /\ queries' = Append(queries, cursor)
    /\ kpc' = "raised"
    /\ UNCHANGED <<project, page_size, cursor, has_next_page, all_items, item_idx, columns>>
    /\ UNCHANGED idleInKanban

(* The answer has no node (the project is gone): break, and the items       *)
(* collected so far are put into columns.                                   *)
RequestPageNoNode ==
    /\ kpc = "paging"
    /\ has_next_page
    /\ queries' = Append(queries, cursor)
    /\ columns' = EmptyColumns
    /\ item_idx' = 1
    /\ kpc' = "placing"
    /\ UNCHANGED <<project, page_size, cursor, has_next_page, all_items>>
    /\ UNCHANGED idleInKanban

(* has_next_page is False: the loop ends and columns is created. *)
PagesDone ==
    /\ kpc = "paging"
    /\ ~has_next_page
    /\ columns' = EmptyColumns
    /\ item_idx' = 1
    /\ kpc' = "placing"
    /\ UNCHANGED <<project, page_size, cursor, has_next_page, all_items, queries>>
    /\ UNCHANGED idleInKanban

PlaceItem ==
    /\ kpc = "placing"
    /\ item_idx <= Len(all_items)
    /\ columns' = Place(columns, all_items[item_idx])
    /\ item_idx' = item_idx + 1
    /\ UNCHANGED <<project, page_size, cursor, has_next_page, all_items, kpc, queries>>
    /\ UNCHANGED idleInKanban

ReturnColumns ==
    /\ kpc = "placing"
    /\ item_idx > Len(all_items)
    /\ kpc' = "returned"
    /\ UNCHANGED <<project, page_size, cursor, has_next_page, all_items, item_idx,
                   columns, queries>>
    /\ UNCHANGED idleInKanban

KanbanNext ==
    \/ RequestPage
    \/ RequestPageRaises
    \/ RequestPageNoNode
    \/ PagesDone
    \/ PlaceItem
    \/ ReturnColumns

KanbanSpec == KanbanInit /\ [][KanbanNext]_vars

-----------------------------------------------------------------------------
(* KanbanFormatSpec: format_kanban_summary applied to a mapping of columns. *)
(* The mapping has the five columns, or lacks one of them (the function     *)
(* reads columns.get(column_name, [])), or has a sixth one.                 *)

MaxColumnLen == 1       \* issues per column

(* column_config: the order of the sections. *)
column_config == <<"Backlog", "Ready", "In progress", "In review", "Done">>

NoIssuesPlaceholder == "No issues in this column"

IssueLine(entry) ==
    [number |-> entry.number, title |-> entry.title, url |-> entry.url,
     labels_str |-> IF entry.labels # <<>> THEN entry.labels ELSE <<"no labels">>,
     state |-> entry.state]

ColumnSectionListsAlways(cols, column_name) ==
    LET column_issues == Get(cols, column_name, <<>>)
    IN  [name |-> column_name,
         count |-> Len(column_issues),
         placeholder |-> "",
         lines |-> [j \in 1..Len(column_issues) |-> IssueLine(column_issues[j])]]

ColumnSection(cols, column_name) ==
    LET column_issues == Get(cols, column_name, <<>>)
        count == Len(column_issues)
    IN  [name |-> column_name,
         count |-> count,
         placeholder |-> IF column_issues = <<>> THEN NoIssuesPlaceholder ELSE "",
         lines |-> IF column_issues = <<>> THEN <<>>
                   ELSE [j \in 1..count |-> IssueLine(column_issues[j])]]

format_kanban_summary(cols, project_name, board_name, t) ==
    [project |-> project_name,
     board |-> board_name,
     generated |-> t,
     total |-> total_issues(cols),
     sections |-> [k \in 1..Len(column_config) |-> ColumnSection(cols, column_config[k])]]

(* An entry of a column, as get_project_items builds it. *)
ColumnEntry(n, labels, state) ==
    [number |-> n, title |-> <<"item">>, url |-> n, state |-> state,
     labels |-> labels, created_at |-> 0, updated_at |-> 0]

(* The entries a column may hold; Backlog and Done vary in labels.          *)
EntriesFor(name, n) ==
    CASE name = "Backlog" -> { ColumnEntry(n, <<"enhancement">>, "OPEN"),
                               ColumnEntry(n, <<"bug", "priority">>, "OPEN") }
      [] name = "Done"    -> { ColumnEntry(n, <<>>, "CLOSED"),
                               ColumnEntry(n, <<"bug">>, "CLOSED") }
      [] OTHER            -> { ColumnEntry(n, <<>>, "OPEN") }

ColumnFills(name) ==
    UNION { { [j \in 1..len |-> es[j]] : es \in [1..len -> EntriesFor(name, len)] } :
            len \in 0..MaxColumnLen }

FiveColumns ==
    { [name \in ColumnNames |->
          CASE name = "Backlog" -> b [] name = "Ready" -> r [] name = "In progress" -> p
            [] name = "In review" -> v [] OTHER -> d] :
      b \in ColumnFills("Backlog"), r \in ColumnFills("Ready"),
      p \in ColumnFills("In progress"), v \in ColumnFills("In review"),
      d \in ColumnFills("Done") }

Without(cols, name) == [x \in DOMAIN cols \ {name} |-> cols[x]]

KanbanFormatInputs ==
    FiveColumns
    \cup { Without(cols, "Ready") : cols \in FiveColumns }
    \cup { Extend(cols, "Archived", <<ColumnEntry(0, <<>>, "OPEN")>>) : cols \in FiveColumns }

ProjectTitles == { "Test Project", "Roadmap" }
BoardNames == { "kanban-board", "Main Board" }

KanbanFormatInit ==
    /\ now = 0
    /\ issue = [number |-> 0]
    /\ llm = NoLlm
    /\ result = NoResult
    /\ IdleMain
    /\ project = <<>>
    /\ page_size = 1
    /\ cursor = NoCursor
    /\ has_next_page = TRUE
    /\ all_items = <<>>
    /\ item_idx = 0
    /\ columns \in KanbanFormatInputs
    /\ kpc = "idle"
    /\ queries = <<>>
    /\ IdleDiscussions

FormatKanban ==
    /\ kpc = "idle"
    /\ pc = "idle"
    /\ \E project_name \in ProjectTitles, board_name \in BoardNames :
          summary_content' = format_kanban_summary(columns, project_name, board_name, now)
    /\ pc' = "formatted"
    /\ UNCHANGED <<repo, env, issues, idx, prioritized_issues, exit_code, net, runs, hist>>
    /\ UNCHANGED scoreVars
    /\ UNCHANGED kanbanVars

KanbanFormatNext == FormatKanban

KanbanFormatSpec == KanbanFormatInit /\ [][KanbanFormatNext]_vars

-----------------------------------------------------------------------------
(* KanbanMainSpec: consecutive runs of main() of the Kanban Summary bot     *)
(* against one repository: configuration, the project lookup,               *)
(* get_project_items (the steps of KanbanSpec), format_kanban_summary, the  *)
(* lookup of the discussion category and create_discussion.                 *)

NoCategory == 0         \* get_discussion_category_id returns None

(* GITHUB_REPOSITORY / argv[1], PROJECT_NAME / argv[2], GITHUB_TOKEN set?   *)
KanbanEnvs == [repository : BOOLEAN, project_name : BOOLEAN, token : BOOLEAN]

(* The category lists of the model; a category's id is its place.  A        *)
(* repository the query does not find lists no category.                    *)
CategoryLists ==
    { <<>>,
      <<"General">>,
      <<"General", "kanban summaries">>,
      <<"Kanban Summaries", "General">> }

(* str.lower() on the category names of the model. *)
LowerCategory(name) ==
    CASE name \in {"Kanban Summaries", "kanban summaries", "KANBAN SUMMARIES"}
            -> "kanban summaries"
      [] name = "General" -> "general"
      [] OTHER -> name

RECURSIVE CategoryIdFrom(_, _, _)
CategoryIdFrom(nodes, category_name, k) ==
    IF k > Len(nodes) THEN NoCategory
    ELSE IF LowerCategory(nodes[k]) = LowerCategory(category_name) THEN k
    ELSE CategoryIdFrom(nodes, category_name, k + 1)

RECURSIVE CategoryIdExactFrom(_, _, _)
CategoryIdExactFrom(nodes, category_name, k) ==
    IF k > Len(nodes) THEN NoCategory
    ELSE IF nodes[k] = category_name THEN k
    ELSE CategoryIdExactFrom(nodes, category_name, k + 1)

CategoryIdExactCase(nodes, category_name) == CategoryIdExactFrom(nodes, category_name, 1)
get_discussion_category_id(nodes, category_name) == CategoryIdFrom(nodes, category_name, 1)

(* What the project lookup finds: get_organization_projects, then           *)
(* get_repository_projects when the first returns None.                     *)
FoundProject == [id |-> 1, title |-> "Roadmap", number |-> 1]
ProjectLookups == { "organization", "repository", "none", "organization raises",
                    "repository raises" }
LookupCalls(outcome) ==
    CASE outcome = "organization" ->
            << Call("github", "organization projects", <<>>, FALSE) >>
      [] outcome = "organization raises" ->
            << Call("github", "organization projects", <<>>, TRUE) >>
      [] outcome = "repository raises" ->
            << Call("github", "organization projects", <<>>, FALSE),
               Call("github", "repository projects", <<>>, TRUE) >>
      [] OTHER ->
            << Call("github", "organization projects", <<>>, FALSE),
               Call("github", "repository projects", <<>>, FALSE) >>

(* The listings of the runs of main(): at most one item. *)
MainListings == { p \in Projects : Len(p) <= 1 }

discussion_title(title, t) == <<"Kanban Summary:", title, t \div HoursPerDay>>

KanbanMainInit ==
    /\ now = 0
    /\ issue = [number |-> 0]
    /\ llm = NoLlm
    /\ result = NoResult
    /\ repo = <<>>
    /\ env = [repository |-> FALSE, project_name |-> FALSE, token |-> FALSE]
    /\ pc = "idle"
    /\ issues = <<>>
    /\ idx = 0
    /\ prioritized_issues = <<>>
    /\ summary_content = NoContent
    /\ exit_code = "running"
    /\ net = <<>>
    /\ runs = 0
    /\ hist = [created |-> 0, closed |-> FALSE, initial |-> 0]
    /\ project \in MainListings
    /\ page_size \in 1..MaxPageSize
    /\ cursor = NoCursor
    /\ has_next_page = TRUE
    /\ all_items = <<>>
    /\ item_idx = 0
    /\ columns = NoColumns
    /\ kpc = "idle"
    /\ queries = <<>>
    /\ categories \in CategoryLists
    /\ discussions = <<>>
    /\ main_project = NoProject

idleInKanbanMain == <<now, issue, llm, result, repo, issues, idx, prioritized_issues,
                      project, page_size, categories>>

(* main(), up to the try block: repo_name and project_name.  hist.initial   *)
(* is the number of discussions at the start of the run.                    *)
StartKanban ==
    /\ pc \in {"idle", "exited"}
    /\ runs < MaxRuns
    /\ runs' = runs + 1
    /\ \E e \in KanbanEnvs :
        /\ env' = e
        /\ IF ~e.repository \/ ~e.project_name
           THEN Exit("1")
           ELSE pc' = "find project" /\ exit_code' = "running"
    /\ summary_content' = NoContent
    /\ net' = <<>>
    /\ hist' = [created |-> 0, closed |-> FALSE, initial |-> Len(discussions)]
    /\ main_project' = NoProject
    /\ cursor' = NoCursor
    /\ has_next_page' = TRUE
    /\ all_items' = <<>>
    /\ item_idx' = 0
    /\ columns' = NoColumns
    /\ kpc' = "idle"
    /\ queries' = <<>>
    /\ UNCHANGED discussions
    /\ UNCHANGED idleInKanbanMain

getItemsVars == <<cursor, has_next_page, all_items, item_idx, columns, queries>>

(* get_github_token raises ValueError in the first execute_graphql_query.   *)
FindProjectNoToken ==
    /\ pc = "find project"
    /\ ~env.token
    /\ Exit("1")
    /\ UNCHANGED <<env, summary_content, net, runs, hist, main_project, kpc, discussions>>
    /\ UNCHANGED getItemsVars
    /\ UNCHANGED idleInKanbanMain

(* The project lookup; when it finds the project, get_project_items is      *)
(* called.                                                                  *)
FindProject ==
    /\ pc = "find project"
    /\ env.token
    /\ \E outcome \in ProjectLookups :
        /\ net' = net \o LookupCalls(outcome)
        /\ IF outcome \in {"organization", "repository"}
           THEN /\ main_project' = FoundProject
                /\ pc' = "get items"
                /\ kpc' = "paging"
                /\ UNCHANGED exit_code
           ELSE /\ Exit("1")
                /\ UNCHANGED <<main_project, kpc>>
    /\ UNCHANGED <<env, summary_content, runs, hist, discussions>>
    /\ UNCHANGED getItemsVars
    /\ UNCHANGED idleInKanbanMain

(* The exception of get_project_items reaches the handler of main(). *)
ItemsRaised ==
    /\ pc = "get items"
    /\ kpc = "raised"
    /\ Exit("1")
    /\ UNCHANGED <<env, summary_content, net, runs, hist, main_project, kpc, discussions>>
    /\ UNCHANGED getItemsVars
    /\ UNCHANGED idleInKanbanMain

FormatReport ==
    /\ pc = "get items"
    /\ kpc = "returned"
    /\ \E board_name \in BoardNames :
          summary_content' =
              format_kanban_summary(columns, main_project.title, board_name, now)
    /\ pc' = "category"
    /\ UNCHANGED <<env, exit_code, net, runs, hist, main_project, kpc, discussions>>
    /\ UNCHANGED getItemsVars
    /\ UNCHANGED idleInKanbanMain

(* get_discussion_category_id(repo_name, 'Kanban Summaries'). *)
CategoryLookup ==
    /\ pc = "category"
    /\ \E raises \in BOOLEAN :
        /\ net' = Append(net, Call("github", "discussion categories", <<>>, raises))
        /\ IF raises \/ get_discussion_category_id(categories, "Kanban Summaries") = NoCategory
           THEN Exit("1")
           ELSE pc' = "create" /\ UNCHANGED exit_code
    /\ UNCHANGED <<env, summary_content, runs, hist, main_project, kpc, discussions>>
    /\ UNCHANGED getItemsVars
    /\ UNCHANGED idleInKanbanMain

(* create_discussion: the repository id, then the createDiscussion          *)
(* mutation; main() returns after it.                                       *)
CreateDiscussionFails ==
    /\ pc = "create"
    /\ \E calls \in { << Call("github", "repository id", <<>>, TRUE) >>,
                      << Call("github", "repository id", <<>>, FALSE),
                         Call("github", "createDiscussion", <<>>, TRUE) >> } :
          net' = net \o calls
    /\ Exit("1")
    /\ UNCHANGED <<env, summary_content, runs, hist, main_project, kpc, discussions>>
    /\ UNCHANGED getItemsVars
    /\ UNCHANGED idleInKanbanMain

CreateDiscussion ==
    /\ pc = "create"
    /\ net' = net \o << Call("github", "repository id", <<>>, FALSE),
                        Call("github", "createDiscussion", <<>>, FALSE) >>
    /\ discussions' =
          Append(discussions,
                 [category |-> get_discussion_category_id(categories, "Kanban Summaries"),
                  title |-> discussion_title(main_project.title, now),
                  body |-> summary_content])
    /\ hist' = [hist EXCEPT !.created = @ + 1]
    /\ Exit("0")
    /\ UNCHANGED <<env, summary_content, runs, main_project, kpc>>
    /\ UNCHANGED getItemsVars
    /\ UNCHANGED idleInKanbanMain

KanbanMainNext ==
    \/ StartKanban
    \/ FindProjectNoToken
    \/ FindProject
    \/ RequestPage
    \/ RequestPageRaises
    \/ RequestPageNoNode
    \/ PagesDone
    \/ PlaceItem
    \/ ReturnColumns
    \/ ItemsRaised
    \/ FormatReport
    \/ CategoryLookup
    \/ CreateDiscussionFails
    \/ CreateDiscussion

KanbanMainSpec == KanbanMainInit /\ [][KanbanMainNext]_vars

-----
(* Properties of get_priority_score (ScoreSpec) *)

Scored  == result # NoResult
AgeDays == calculate_issue_age(issue.created_at, now)
Points(p) == p * HalfUnits

(* C1: for every issue and analyzer outcome the age, engagement and context *)
(* components each lie in [0,50], and the total is their sum, so in         *)
(* [0,150].                                                                 *)
C1_ComponentsInRange ==
    Scored =>
        /\ result.breakdown.age \in 0..Points(50)
        /\ result.breakdown.engagement \in 0..Points(50)
        /\ result.breakdown.context \in 0..Points(50)
        /\ result.total = result.breakdown.age + result.breakdown.engagement
                            + result.breakdown.context
        /\ result.total \in 0..Points(150)

(* C2: the age component is min(age_in_days / 2, 50): half a point per      *)
(* whole day below 100 days, 50.0 from 100 days on (20 days give 10.0, 100  *)
(* and 200 days give 50.0), and it never decreases as the issue ages.       *)
C2_AgeValue ==
    Scored =>
        /\ AgeDays < 100 => 2 * result.breakdown.age = Points(AgeDays)
        /\ AgeDays >= 100 => result.breakdown.age = Points(50)
        /\ AgeDays = 20 => result.breakdown.age = Points(10)
        /\ AgeDays \in {100, 200} => result.breakdown.age = Points(50)

C2_AgeMonotonic ==
    (Scored /\ Scored' /\ AgeDays' >= AgeDays)
        => result'.breakdown.age >= result.breakdown.age

C2_AgeComponent == [] C2_AgeValue /\ [][C2_AgeMonotonic]_vars

C2_Witness ==
    /\ Scored
    /\ AgeDays = 200
    /\ result.breakdown.age = Points(50)

(* C3: the engagement component is min(comment_count * 3, 50): 5 comments   *)
(* give 15.0, 50 and 100 comments both give 50.0.                           *)
C3_EngagementComponent ==
    Scored =>
        /\ issue.comments * 3 <= 50
              => result.breakdown.engagement = Points(issue.comments * 3)
        /\ issue.comments * 3 > 50 => result.breakdown.engagement = Points(50)
        /\ issue.comments = 5 => result.breakdown.engagement = Points(15)
        /\ issue.comments \in {50, 100} => result.breakdown.engagement = Points(50)

C3_Witness ==
    /\ Scored
    /\ issue.comments = 100
    /\ result.breakdown.engagement = Points(50)

(* C4: labels never affect the score: scoring again after only the labels   *)
(* changed (same created_at, comments, title, body, clock and analyzer)     *)
(* returns the same total and the same breakdown.                           *)
C4_OnlyLabelsChange ==
    /\ Scored /\ Scored'
    /\ issue'.labels # issue.labels
    /\ issue' = [issue EXCEPT !.labels = issue'.labels]
    /\ now' = now /\ llm' = llm

-----------------------------------------------------------------------------
(* Properties of main() (Spec) *)

Numbers(seq) == { seq[k].number : k \in 1..Len(seq) }
CallsOf(op) == SelectSeq(net, LAMBDA c : c.op = op)
EntryOf(n) == CHOOSE e \in { prioritized_issues[k] : k \in 1..Len(prioritized_issues) } :
                  e.number = n
FetchedOf(n) == CHOOSE i \in { issues[k] : k \in 1..Len(issues) } : i.number = n
FetchPosition(n) == CHOOSE k \in 1..Len(issues) : issues[k].number = n
LoopDone == pc = "publish" \/ (pc = "exited" /\ summary_content.form = "full")
Published == pc = "exited" /\ exit_code = "0"

(* The analyzer's except branch ran for issue n in this run. *)
ContextFailed(n) ==
    \E k \in 1..Len(net) :
        net[k].op = "context" /\ net[k].about = <<n>> /\ net[k].reported

(* C5: when the contextual analyzer fails for an issue (exception, empty    *)
(* response, unparsable first token) that issue's context component is      *)
(* exactly 0.0, its age and engagement components are what they are         *)
(* without an analyzer, nothing escapes (the run does not end in main's     *)
(* handler on it), and every remaining issue is still scored.               *)
C5_AnalyzerFailureContained ==
    /\ \A k \in 1..Len(prioritized_issues) :
         LET e == prioritized_issues[k] IN
         ContextFailed(e.number) =>
            /\ e.priority_breakdown.context = 0
            /\ e.priority_breakdown.age =
                  Min(calculate_issue_age(e.created_at, now), Points(50))
            /\ e.priority_breakdown.engagement = Min(Points(e.comments * 3), Points(50))
            /\ e.priority_score = e.priority_breakdown.age + e.priority_breakdown.engagement
    /\ \A k \in 1..Len(net) :
         (net[k].op = "context" /\ net[k].reported)
            => /\ net[k].about[1] \in Numbers(prioritized_issues)
               /\ k + 2 <= Len(net)
               /\ net[k + 1].op = "summary" /\ net[k + 2].op = "reading"
    /\ LoopDone =>
         \A k \in 1..Len(issues) :
            ~SkipInMain(issues[k]) =>
                /\ issues[k].number \in Numbers(prioritized_issues)
                /\ Len(CallsOf("context")) = Len(prioritized_issues)

C5_Witness ==
    /\ Published
    /\ Len(prioritized_issues) = 2
    /\ ContextFailed(issues[1].number)
    /\ ~ContextFailed(issues[2].number)
    /\ EntryOf(issues[2].number).priority_breakdown.context > 0

(* C6: in a run whose fetch succeeds, whatever per-issue calls fail, every  *)
(* fetched issue other than the summary issue has exactly one section in    *)
(* the published report (summary "Unable to generate summary. <title>" and  *)
(* no reading section on failure), and the run publishes and does not exit  *)
(* non-zero on account of those failures.                                   *)
SectionsOf(n) ==
    { k \in 1..Len(summary_content.sections) : summary_content.sections[k].number = n }

C6_EveryIssueReported ==
    /\ (pc = "exited" /\ exit_code = "1" /\ CallsOf("context") # <<>>)
          => net[Len(net)].api = "github"
    /\ (Published /\ summary_content.form = "full") =>
         \A k \in 1..Len(issues) :
            LET i == issues[k] IN
            i.title # summary_title =>
               /\ Cardinality(SectionsOf(i.number)) = 1
               /\ \A j \in SectionsOf(i.number) :
                    LET sec == summary_content.sections[j] IN
                    /\ (\E c \in 1..Len(net) : net[c].op = "summary"
                            /\ net[c].about = <<i.number>> /\ net[c].reported)
                         => sec.summary = <<"Unable to generate summary.">> \o i.title
                    /\ (\E c \in 1..Len(net) : net[c].op = "reading"
                            /\ net[c].about = <<i.number>> /\ net[c].reported)
                         => sec.reading_section = <<>>

(* C7: the sections of the published report are in non-increasing order of  *)
(* priority score, and sections with equal scores are in fetch order.       *)
C7_SortedStable ==
    (LoopDone /\ summary_content.form = "full") =>
        /\ Len(summary_content.sections) = Len(prioritized_issues)
        /\ \A a, b \in 1..Len(summary_content.sections) :
            LET sa == summary_content.sections[a]
                sb == summary_content.sections[b]
            IN a < b =>
                /\ sa.priority_score >= sb.priority_score
                /\ sa.priority_score = sb.priority_score
                      => FetchPosition(sa.number) < FetchPosition(sb.number)

C7_Witness ==
    /\ Published
    /\ summary_content.form = "full"
    /\ Len(summary_content.sections) = 2
    /\ summary_content.sections[1].priority_score = summary_content.sections[2].priority_score
    /\ summary_content.sections[1].comments # summary_content.sections[2].comments

(* C8: a run that reaches create_or_update_summary_issue creates a new      *)
(* issue (title of the summary issue, labels bot and summary) exactly when  *)
(* no open item has that exact title, and otherwise edits the body of the   *)
(* first such item and creates nothing; no other step creates anything.     *)
(* So, as long as no summary issue is closed from outside, the runs create  *)
(* at most one, and none if one was open at first: the number of open ones  *)
(* stays at one, or at what it was at first.                                *)
OpenSummaryIssues(r) == SelectSeq(r, LAMBDA i : i.state = "open" /\ i.title = summary_title)

C8_PublishStep ==
    IF pc = "publish" /\ pc' = "exited" /\ exit_code' = "0"
    THEN IF OpenSummaryIssues(repo) = <<>>
         THEN /\ Len(repo') = Len(repo) + 1
              /\ Tail(repo') = repo
              /\ Head(repo').title = summary_title
              /\ Head(repo').labels = <<"bot", "summary">>
              /\ Head(repo').state = "open"
              /\ ~Head(repo').pull_request
              /\ Head(repo').number \notin Numbers(repo)
              /\ Head(repo').body.form = summary_content.form
         ELSE /\ Len(repo') = Len(repo)
              /\ \A k \in 1..Len(repo) :
                   IF repo[k].number = OpenSummaryIssues(repo)[1].number
                   THEN /\ repo'[k] = [repo[k] EXCEPT !.body = repo'[k].body]
                        /\ repo'[k].body.form = summary_content.form
                   ELSE repo'[k] = repo[k]
    ELSE Len(repo') = Len(repo)

C8_AtMostOne ==
    ~hist.closed =>
        /\ hist.created <= 1
        /\ hist.initial >= 1 => hist.created = 0
        /\ Len(OpenSummaryIssues(repo)) = hist.initial + hist.created

C8_Upsert == [] C8_AtMostOne /\ [][C8_PublishStep]_vars

C8_Witness ==
    /\ Published
    /\ runs = 2
    /\ ~hist.closed
    /\ hist.initial = 0
    /\ hist.created = 1
    /\ net[Len(net)].op = "edit"

(* C9: the summary issue is never scored: no line of prioritized_issues, no *)
(* section of the report and no entry of the recommendation input is the    *)
(* summary issue, and the report's total does not count it.                 *)
C9_SummaryIssueNotScored ==
    /\ \A k \in 1..Len(prioritized_issues) : prioritized_issues[k].title # summary_title
    /\ \A k \in 1..Len(net) :
         net[k].op = "recommendation" =>
            \A j \in 1..Len(net[k].about) : FetchedOf(net[k].about[j]).title # summary_title
    /\ summary_content.form = "full" =>
         /\ \A k \in 1..Len(summary_content.sections) :
               summary_content.sections[k].title # summary_title
         /\ summary_content.total = Len(summary_content.sections)
         /\ summary_content.total <=
               Len(SelectSeq(issues, LAMBDA i : i.title # summary_title))

C9_Witness ==
    /\ Published
    /\ summary_content.form = "full"
    /\ \E k \in 1..Len(issues) : issues[k].title = summary_title
    /\ summary_content.total = Len(issues) - 1
    /\ summary_content.total >= 1

(* C10: when GITHUB_TOKEN or OPENAI_API_KEY is missing the run exits        *)
(* non-zero before it has made any network call.                            *)
C10_NoNetworkWithoutCredentials ==
    (pc # "idle" /\ (~env.token \/ ~env.key)) =>
        /\ net = <<>>
        /\ pc = "exited" => exit_code = "1"

-----------------------------------------------------------------------------
(* Properties of format_issue_summary (FormatSpec) and of the report main() *)
(* publishes (Spec)                                                         *)

Formatted == pc = "formatted"
Report == summary_content
HasRecommendationSection(c) == "recommendation" \in DOMAIN c
HasIssueSections(c) == "sections" \in DOMAIN c /\ c.sections # <<>>
ReportWritten == pc \in {"publish", "exited"} /\ summary_content # NoContent

(* C11 (as claimed): whenever the sequence of scored issues is empty, the   *)
(* report is the short form that says there are no open issues, with no     *)
(* per-issue section and no recommendation section.                         *)
C11_EmptyGivesShortForm ==
    (ReportWritten /\ prioritized_issues = <<>>) =>
        /\ Report.form = "short"
        /\ ~HasRecommendationSection(Report)
        /\ ~HasIssueSections(Report)

(* C11 (amended): the short form, which says there are no open issues and   *)
(* has neither per-issue sections nor a recommendation section, is written  *)
(* by main() exactly when fetch_open_issues returned no issue.  When issues *)
(* were fetched and none was scored, format_issue_summary gets the empty    *)
(* sequence and returns the full form: total 0, no per-issue section, and   *)
(* the recommendation section with the no-issues recommendation.            *)
C11_ShortFormOnlyWhenNothingFetched ==
    ReportWritten =>
        /\ Report.form = "short" <=> issues = <<>>
        /\ Report.form = "short" =>
              /\ Report.status = "No open issues found"
              /\ ~HasRecommendationSection(Report)
              /\ ~HasIssueSections(Report)
        /\ (issues # <<>> /\ prioritized_issues = <<>>) =>
              /\ Report.form = "full"
              /\ Report.total = 0
              /\ ~HasIssueSections(Report)
              /\ HasRecommendationSection(Report)
              /\ Report.recommendation = <<"No open issues to prioritize.">>

C11_Witness ==
    /\ ReportWritten
    /\ issues # <<>>
    /\ prioritized_issues = <<>>
    /\ Report.form = "full"
    /\ Report.total = 0

(* C12: the report of format_issue_summary carries the repository name and  *)
(* a total equal to the length of its input, which is also its number of    *)
(* per-issue sections; for the empty input the total is 0 and there is no   *)
(* per-issue section.                                                       *)
C12_TotalIsInputLength ==
    Formatted =>
        /\ Report.repository = repo_name
        /\ Report.total = Len(prioritized_issues)
        /\ Len(Report.sections) = Report.total
        /\ prioritized_issues = <<>> => (Report.total = 0 /\ ~HasIssueSections(Report))

C12_Witness ==
    /\ Formatted
    /\ prioritized_issues = <<>>
    /\ Report.repository = repo_name
    /\ Report.total = 0
    /\ Report.sections = <<>>

(* C13: the k-th section is about the k-th input record and is numbered k:  *)
(* the formatter keeps the order it is given and never sorts.               *)
C13_InputOrderKept ==
    Formatted =>
        /\ Len(Report.sections) = Len(prioritized_issues)
        /\ \A k \in 1..Len(Report.sections) :
              /\ Report.sections[k].idx = k
              /\ Report.sections[k].number = prioritized_issues[k].number
              /\ Report.sections[k].title = prioritized_issues[k].title
              /\ Report.sections[k].priority_score = prioritized_issues[k].priority_score

C13_Witness ==
    /\ Formatted
    /\ Len(prioritized_issues) >= 2
    /\ prioritized_issues[1].priority_score < prioritized_issues[2].priority_score
    /\ Report.sections[1].number = prioritized_issues[1].number
    /\ Report.sections[2].idx = 2

BreakdownOf(e) == Get(e, "priority_breakdown", EmptyDict)
ContextOf(e) == Get(BreakdownOf(e), "context", 0)
Words(terms) == [k \in 1..Len(terms) |-> terms[k].word]
HasWord(terms, w) == \E k \in 1..Len(terms) : terms[k].word = w

(* C14 (as claimed): every section shows the age and engagement terms next  *)
(* to the score, and the context term exactly when the context is above 0.  *)
C14_AgeEngagementAlwaysShown ==
    Formatted =>
        \A k \in 1..Len(Report.sections) :
            LET terms == Report.sections[k].priority_display.terms IN
            /\ HasWord(terms, "Age")
            /\ HasWord(terms, "Engagement")
            /\ HasWord(terms, "Context analysis") <=> ContextOf(prioritized_issues[k]) > 0

(* C14 (amended): for a record with a non-empty priority_breakdown the      *)
(* section shows the age term and the engagement term (a missing component  *)
(* as 0.0) and then the context term exactly when the context is above 0;   *)
(* for a record without a breakdown, or with an empty one, the section      *)
(* shows the score alone.                                                   *)
C14_BreakdownTerms ==
    Formatted =>
        \A k \in 1..Len(Report.sections) :
            LET e == prioritized_issues[k]
                b == BreakdownOf(e)
                shown == Report.sections[k].priority_display
            IN  /\ shown.score = e.priority_score
                /\ DOMAIN b = {} => shown.terms = <<>>
                /\ DOMAIN b # {} =>
                     /\ Len(shown.terms) >= 2
                     /\ shown.terms[1] = [value |-> Get(b, "age", 0), word |-> "Age"]
                     /\ shown.terms[2] =
                           [value |-> Get(b, "engagement", 0), word |-> "Engagement"]
                     /\ IF ContextOf(e) > 0
                        THEN Words(shown.terms) = <<"Age", "Engagement", "Context analysis">>
                             /\ shown.terms[3].value = ContextOf(e)
                        ELSE Words(shown.terms) = <<"Age", "Engagement">>

C14_Witness ==
    /\ Formatted
    /\ Len(prioritized_issues) >= 2
    /\ DOMAIN BreakdownOf(prioritized_issues[1]) # {}
    /\ ContextOf(prioritized_issues[1]) = 0
    /\ Words(Report.sections[1].priority_display.terms) = <<"Age", "Engagement">>
    /\ ContextOf(prioritized_issues[2]) > 0
    /\ Words(Report.sections[2].priority_display.terms)
          = <<"Age", "Engagement", "Context analysis">>

(* C15: a section has the Recommended Reading block, holding the record's   *)
(* reading materials, exactly when the record has non-empty reading         *)
(* materials; the empty text and the missing key both give no block.        *)
C15_ReadingBlock ==
    Formatted =>
        \A k \in 1..Len(Report.sections) :
            LET e == prioritized_issues[k]
                block == Report.sections[k].reading_section
            IN  IF "reading_materials" \in DOMAIN e /\ e.reading_materials # <<>>
                THEN block = <<ReadingHeading>> \o e.reading_materials
                ELSE block = <<>>

C15_Witness ==
    /\ Formatted
    /\ Len(prioritized_issues) >= 2
    /\ "reading_materials" \notin DOMAIN prioritized_issues[1]
    /\ Report.sections[1].reading_section = <<>>
    /\ Get(prioritized_issues[2], "reading_materials", <<>>) # <<>>
    /\ Head(Report.sections[2].reading_section) = ReadingHeading

-----------------------------------------------------------------------------
(* Properties of get_priority_score without a model, and of the analyzer's  *)
(* clamp (ScoreSpec)                                                        *)

AnswersNumber == llm # NoLlm /\ ~analyze_failed(llm) /\ Head(llm.run.tokens).t = "num"
Answer == Head(llm.run.tokens).v

(* C17: what analyze_contextual_priority returns lies in [0,50]; a numeric  *)
(* answer below 0 gives 0.0, one above 50 gives 50.0, and one in between is *)
(* returned unchanged.                                                      *)
C17_AnalyzerClamped ==
    (Scored /\ llm # NoLlm) =>
        /\ result.breakdown.context \in 0..Points(MaxComponent)
        /\ Len(net) = 1
        /\ AnswersNumber =>
              /\ Answer < 0 => result.breakdown.context = 0
              /\ Answer > Points(MaxComponent) =>
                    result.breakdown.context = Points(MaxComponent)
              /\ Answer \in 0..Points(MaxComponent) => result.breakdown.context = Answer

C17_Witness ==
    /\ Scored
    /\ AnswersNumber
    /\ Answer < 0
    /\ result.breakdown.context = 0

-----------------------------------------------------------------------------
(* Properties of get_project_items (KanbanSpec)                             *)

Returned == kpc = "returned"
InColumn(n, name) == \E j \in 1..Len(columns[name]) : columns[name][j].number = n
ColumnsOf(n) == { name \in DOMAIN columns : InColumn(n, name) }

(* The item is an issue with a number: the loop does not skip it. *)
IsIssue(item) == "content" \in DOMAIN item /\ "number" \in DOMAIN item.content

(* The places of the item's field values whose field is called status or    *)
(* state in any case, and the option the first of them selects.             *)
IsStatusField(name) == name \in {"Status", "STATUS", "status", "State", "STATE", "state"}
StatusValues(item) ==
    { j \in 1..Len(item.fieldValues.nodes) :
        /\ "field" \in DOMAIN item.fieldValues.nodes[j]
        /\ IsStatusField(item.fieldValues.nodes[j].field.name) }
FirstStatusValue(item) ==
    item.fieldValues.nodes[CHOOSE j \in StatusValues(item) :
                               \A h \in StatusValues(item) : j <= h]
StatusOf(item) ==
    IF StatusValues(item) = {} THEN "Backlog"
    ELSE Get(FirstStatusValue(item), "name", "Backlog")
Counted == { k \in 1..Len(all_items) :
               IsIssue(all_items[k]) /\ StatusOf(all_items[k]) \in ColumnNames }

(* C18: the mapping has exactly the five keys Backlog, Ready, In progress,  *)
(* In review and Done; an item whose status is none of them (Archived, for  *)
(* one) is in no column and is not counted in the total, and the function   *)
(* returns all the same.                                                    *)
C18_UnknownStatusDropped ==
    /\ kpc \in {"placing", "returned"} => DOMAIN columns = ColumnNames
    /\ Returned =>
          /\ \A k \in 1..Len(all_items) :
                (IsIssue(all_items[k]) /\ StatusOf(all_items[k]) \notin ColumnNames)
                    => ColumnsOf(all_items[k].content.number) = {}
          /\ total_issues(columns) = Cardinality(Counted)

C18_Witness ==
    /\ Returned
    /\ Len(all_items) = 2
    /\ IsIssue(all_items[1])
    /\ StatusOf(all_items[1]) = "Archived"
    /\ ColumnsOf(all_items[1].content.number) = {}
    /\ IsIssue(all_items[2])
    /\ ColumnsOf(all_items[2].content.number) = {"Ready"}
    /\ total_issues(columns) = 1

(* C19 (as claimed): an item whose status value names none of the columns   *)
(* is placed in Backlog.                                                    *)
C19_UnknownStatusInBacklog ==
    Returned =>
        \A k \in 1..Len(all_items) :
            (/\ IsIssue(all_items[k])
             /\ StatusValues(all_items[k]) # {}
             /\ StatusOf(all_items[k]) \notin ColumnNames)
                => InColumn(all_items[k].content.number, "Backlog")

(* C19 (amended): Backlog is the column of an item that has no status or    *)
(* state field value at all; an item whose status value names none of the   *)
(* five columns is placed in no column.                                     *)
C19_BacklogOnlyWithoutStatus ==
    Returned =>
        \A k \in 1..Len(all_items) :
            LET item == all_items[k] IN
            IsIssue(item) =>
                /\ StatusValues(item) = {} => ColumnsOf(item.content.number) = {"Backlog"}
                /\ (StatusValues(item) # {} /\ StatusOf(item) \notin ColumnNames)
                      => ColumnsOf(item.content.number) = {}

C19_Witness ==
    /\ Returned
    /\ Len(all_items) = 2
    /\ IsIssue(all_items[1])
    /\ StatusValues(all_items[1]) = {}
    /\ all_items[1].fieldValues.nodes # <<>>
    /\ InColumn(all_items[1].content.number, "Backlog")
    /\ IsIssue(all_items[2])
    /\ StatusValues(all_items[2]) # {}
    /\ StatusOf(all_items[2]) \notin ColumnNames
    /\ ColumnsOf(all_items[2].content.number) = {}

(* C20: the status of an item is the option selected by the first of its    *)
(* field values, in listed order, whose field is called status or state in  *)
(* any case; later ones are ignored.  An item with no such value has the    *)
(* status Backlog.  An issue whose status is a column is in that column     *)
(* and in no other.                                                         *)
C20_FirstStatusValueDecides ==
    Returned =>
        \A k \in 1..Len(all_items) :
            LET item == all_items[k] IN
            (IsIssue(item) /\ StatusOf(item) \in ColumnNames)
                => ColumnsOf(item.content.number) = {StatusOf(item)}

C20_Witness ==
    /\ Returned
    /\ \E k \in 1..Len(all_items) :
          /\ IsIssue(all_items[k])
          /\ Cardinality(StatusValues(all_items[k])) = 2
          /\ FirstStatusValue(all_items[k]).name = "In progress"
          /\ ColumnsOf(all_items[k].content.number) = {"In progress"}
    /\ \E k \in 1..Len(all_items) :
          /\ IsIssue(all_items[k])
          /\ StatusValues(all_items[k]) = {1}
          /\ all_items[k].fieldValues.nodes[1].field.name = "STATE"
          /\ ColumnsOf(all_items[k].content.number) = {"In review"}

(* The entries of all columns whose number is n. *)
EntriesOf(n) ==
    { pos \in { <<name, j>> : name \in DOMAIN columns, j \in 1..Len(all_items) } :
        /\ pos[2] <= Len(columns[pos[1]])
        /\ columns[pos[1]][pos[2]].number = n }

(* C21: an item without content, or whose content has no number, is in no   *)
(* column; every entry of a column comes from an issue of the listing, and  *)
(* no issue has more than one entry over all columns.                       *)
C21_SkippedOrPlacedOnce ==
    Returned =>
        /\ \A k \in 1..Len(all_items) :
              ~IsIssue(all_items[k]) => EntriesOf(all_items[k].id) = {}
        /\ \A name \in DOMAIN columns : \A j \in 1..Len(columns[name]) :
              \E k \in 1..Len(all_items) :
                  /\ IsIssue(all_items[k])
                  /\ all_items[k].content.number = columns[name][j].number
        /\ \A k \in 1..Len(all_items) :
              IsIssue(all_items[k]) =>
                  Cardinality(EntriesOf(all_items[k].content.number)) <= 1

C21_Witness ==
    /\ Returned
    /\ Len(all_items) = 2
    /\ "content" \in DOMAIN all_items[1]
    /\ DOMAIN all_items[1].content # {}
    /\ ~IsIssue(all_items[1])
    /\ EntriesOf(all_items[1].id) = {}
    /\ IsIssue(all_items[2])
    /\ Cardinality(EntriesOf(all_items[2].content.number)) = 1

(* The pages of the listing: the cursor each is asked with. *)
RECURSIVE CursorChain(_)
CursorChain(c) ==
    IF PageAfter(c).pageInfo.hasNextPage
    THEN <<c>> \o CursorChain(PageAfter(c).pageInfo.endCursor)
    ELSE <<c>>
Drained == kpc \in {"placing", "returned"} /\ ~has_next_page
Ascending(col) == \A i, j \in 1..Len(col) : i < j => col[i].number < col[j].number

(* C22: when every request is answered with its page, columns are filled    *)
(* only after the last page: each page was requested exactly once, the      *)
(* first with the null cursor and each later one with the endCursor of the  *)
(* page before, the last request is the one answered with hasNextPage       *)
(* false, all_items is the concatenation of the pages in arrival order, and *)
(* each column lists its items in arrival order.                            *)
C22_DrainedBeforePlacing ==
    /\ (kpc = "paging" /\ has_next_page) => columns = NoColumns
    /\ Drained =>
          /\ queries = CursorChain(NoCursor)
          /\ queries[1] = NoCursor
          /\ \A j \in 1..Len(queries) - 1 :
                /\ PageAfter(queries[j]).pageInfo.hasNextPage
                /\ queries[j + 1] = PageAfter(queries[j]).pageInfo.endCursor
          /\ ~PageAfter(queries[Len(queries)]).pageInfo.hasNextPage
          /\ all_items = project
    /\ (Drained /\ Returned) => \A name \in DOMAIN columns : Ascending(columns[name])

C22_Witness ==
    /\ Returned
    /\ ~has_next_page
    /\ Len(queries) = 2
    /\ queries[2] # NoCursor
    /\ \E name \in DOMAIN columns :
          /\ Len(columns[name]) = 2
          /\ columns[name][1].number = 1
          /\ columns[name][2].number = 2

-----------------------------------------------------------------------------
(* Properties of format_kanban_summary (KanbanFormatSpec)                   *)

KanbanFormatted == pc = "formatted" /\ "board" \in DOMAIN summary_content
ColumnLen(name) == Len(Get(columns, name, <<>>))
SectionShows(k, name, count) ==
    /\ summary_content.sections[k].name = name
    /\ summary_content.sections[k].count = count

(* C23: the report has exactly five sections, for Backlog, Ready, In        *)
(* progress, In review and Done in this order; each heading carries the     *)
(* number of issues of its column; a section has the placeholder and no     *)
(* list when its column is empty, and otherwise one line per issue of the   *)
(* column in order; the total of the header is the sum of the lengths of    *)
(* all columns of the mapping (Backlog 1, Ready 0, In progress 1, In review *)
(* 0, Done 1: total 3).                                                     *)
C23_SectionsAndTotal ==
    KanbanFormatted =>
        /\ Len(summary_content.sections) = 5
        /\ [k \in 1..5 |-> summary_content.sections[k].name]
              = <<"Backlog", "Ready", "In progress", "In review", "Done">>
        /\ \A k \in 1..5 :
              LET sec == summary_content.sections[k] IN
              /\ sec.count = ColumnLen(sec.name)
              /\ Len(sec.lines) = sec.count
              /\ sec.placeholder = NoIssuesPlaceholder <=> sec.count = 0
              /\ sec.count > 0 => sec.placeholder = ""
              /\ \A j \in 1..sec.count : sec.lines[j].number = columns[sec.name][j].number
        /\ summary_content.total
              = ColumnLen("Backlog") + ColumnLen("Ready") + ColumnLen("In progress")
                + ColumnLen("In review") + ColumnLen("Done") + ColumnLen("Archived")

C23_Witness ==
    /\ KanbanFormatted
    /\ DOMAIN columns = ColumnNames
    /\ SectionShows(1, "Backlog", 1)
    /\ SectionShows(2, "Ready", 0)
    /\ SectionShows(3, "In progress", 1)
    /\ SectionShows(4, "In review", 0)
    /\ SectionShows(5, "Done", 1)
    /\ summary_content.sections[2].placeholder = NoIssuesPlaceholder
    /\ summary_content.total = 3

-----------------------------------------------------------------------------
(* Properties of main() of the Kanban Summary bot (KanbanMainSpec)          *)

KanbanExited == pc = "exited" /\ runs > 0
HasKanbanCategory ==
    \E k \in 1..Len(categories) :
        categories[k] \in {"Kanban Summaries", "kanban summaries", "KANBAN SUMMARIES"}
NoCallFailed == \A k \in 1..Len(net) : ~net[k].reported
ReachedCreate ==
    /\ env.repository /\ env.project_name /\ env.token
    /\ main_project # NoProject
    /\ kpc = "returned"
    /\ NoCallFailed
C24_RunOutcome ==
    /\ Len(discussions) \in {hist.initial, hist.initial + 1}
    /\ KanbanExited =>
        /\ exit_code \in {"0", "1"}
        /\ exit_code = "0" <=> Len(discussions) = hist.initial + 1
        /\ exit_code = "0" =>
              /\ main_project # NoProject
              /\ HasKanbanCategory
              /\ discussions[Len(discussions)].body = summary_content
              /\ categories[discussions[Len(discussions)].category]
                    \in {"Kanban Summaries", "kanban summaries", "KANBAN SUMMARIES"}
        /\ (ReachedCreate /\ HasKanbanCategory) => exit_code = "0"
        /\ ~HasKanbanCategory => exit_code = "1" /\ Len(discussions) = hist.initial
C24_OnlyAppends ==
    discussions' # discussions =>
        /\ Len(discussions') = Len(discussions) + 1
        /\ SubSeq(discussions', 1, Len(discussions)) = discussions

(* C24: a run of the Kanban bot that resolves the project, lists its items  *)
(* and finds a category named 'Kanban Summaries' in any letter case, with   *)
(* no call failing, exits 0 having appended exactly one discussion, in that *)
(* category and with the report as body; no step ever changes or removes an *)
(* earlier discussion; every other run, in particular every run against a   *)
(* repository without that category, exits 1 and creates no discussion.     *)
C24_OneNewDiscussion == [] C24_RunOutcome /\ [][C24_OnlyAppends]_vars

C24_Witness ==
    /\ KanbanExited
    /\ runs = 2
    /\ exit_code = "0"
    /\ categories = <<"General", "kanban summaries">>
    /\ Len(discussions) = 2
    /\ hist.initial = 1
    /\ discussions[2].category = 2

-----------------------------------------------------------------------------
(* Properties of get_priority_score on labelled issues (LabelScoreSpec)     *)

ScoredWithoutAnalyzer == Scored /\ llm = NoLlm /\ AgeDays = 0

-----------------------------------------------------------------------------
(* Properties of the engagement cap (ScoreSpec)                             *)

(* The score of the issue of the state had it n comments. *)
ScoreWithComments(n) == get_priority_score([issue EXCEPT !.comments = n], now, llm)

(* C26: for issues that differ only in comment count, the score with 16     *)
(* comments differs from the score with 50 comments (48.0 against 50.0 at   *)
(* age 0 with no analyzer), while the scores with 17, 50 and 100 comments   *)
(* are equal (all 50.0 at age 0 with no analyzer).                          *)
C26_CapReachedAtSeventeen ==
    Scored =>
        /\ result = ScoreWithComments(issue.comments)
        /\ ScoreWithComments(16) # ScoreWithComments(50)
        /\ ScoreWithComments(17) = ScoreWithComments(50)
        /\ ScoreWithComments(50) = ScoreWithComments(100)
        /\ (AgeDays = 0 /\ llm = NoLlm) =>
              /\ ScoreWithComments(16).total = Points(48)
              /\ ScoreWithComments(17).total = Points(50)
              /\ ScoreWithComments(50).total = Points(50)
              /\ ScoreWithComments(100).total = Points(50)

C26_Witness ==
    /\ Scored
    /\ issue.comments = 17
    /\ AgeDays = 0
    /\ llm = NoLlm
    /\ result.total = Points(50)

(* C26 as stated: 17 and 50 comments score differently, 50 and 100 alike.   *)
C26_SeventeenBelowCap ==
    Scored =>
        /\ ScoreWithComments(17) # ScoreWithComments(50)
        /\ ScoreWithComments(50) = ScoreWithComments(100)

-----------------------------------------------------------------------------
(* The scored set and the tracking issue (Spec)                             *)

(* The title test of the upsert lookup of create_or_update_summary_issue. *)
UpsertMatches(i) == i.title = summary_title
LeftOut == { k \in 1..Len(issues) : issues[k].number \notin Numbers(prioritized_issues) }

(* C27: once the scoring loop of a run has ended, the fetched issues left   *)
(* out of prioritized_issues are exactly those the upsert lookup matches    *)
(* (title equal to the tracking-issue title); every other fetched issue,    *)
(* also one whose title merely contains 'Issue Summary Report', is scored   *)
(* and has a section in the published report.                               *)
C27_LeftOutAreUpsertMatches ==
    /\ LoopDone => LeftOut = { k \in 1..Len(issues) : UpsertMatches(issues[k]) }
    /\ (Published /\ summary_content.form = "full") =>
          \A k \in 1..Len(issues) :
              ~UpsertMatches(issues[k]) => SectionsOf(issues[k].number) # {}

(* The run in progress is the second one, the repository was empty before   *)
(* the first, which created the tracking issue, and nothing else is open.   *)
FollowsCreatingRun ==
    /\ runs = 2
    /\ pc # "idle"
    /\ hist.initial = 0
    /\ hist.created = 1
    /\ Len(repo) = 1
    /\ UpsertMatches(repo[1])
    /\ repo[1].state = "open"
    /\ \A k \in 1..Len(net) : net[k].op # "create_issue"

(* C28: on a repository whose only open issue is the tracking issue, the    *)
(* run that follows the one which created the tracking issue makes no LLM   *)
(* call, writes the short-form 'no open issues' report again, and, given    *)
(* the repository name and the GitHub token and no failing call, exits 0    *)
(* whether or not the model-API key is set.                                 *)
C28_SecondRunLikeFirst ==
    FollowsCreatingRun =>
        /\ \A k \in 1..Len(net) : net[k].api # "openai"
        /\ ReportWritten => Report.form = "short"
        /\ (pc = "exited" /\ env.repository /\ env.token /\ NoCallFailed)
              => exit_code = "0"

====
